---- MODULE Spec2Model ----
(***************************************************************************)
(* SimpleVector<Type>: a resizable contiguous array built on ArrayPtr.     *)
(* The heap is modelled explicitly (buffer address -> array of slots) so   *)
(* that buffer identity, stale slots beyond size_ and partially relocated  *)
(* buffers are all visible.  Indices are the 0-based indices of the code.  *)
(***************************************************************************)
EXTENDS Integers, Sequences, FiniteSets, TLC

\* ---------------------------------------------------------------- bounds
MaxCap == 4        \* largest capacity allocated when one container is exercised
MaxCapTwo == 1     \* largest capacity allocated when two containers interact
MaxVal == 1        \* element payloads are 1..MaxVal
MaxCapPush == 8    \* largest capacity allocated when only PushBack is exercised
MaxValPush == 2    \* element payloads when only PushBack is exercised
MaxCapOwn == 2     \* largest capacity allocated when buffers change owner
NAddr == 3         \* distinct heap addresses the allocator can hand out

\* ------------------------------------------------------- program constants
SIZE_BITS == 4                    \* width of size_t in the model
SIZE_MOD == 2 ^ SIZE_BITS
NULL == 0                         \* ArrayPtr holding nullptr
Default == 0                      \* payload of Type()
MovedFrom == -1                   \* payload left in a moved-from object

Val == 1..MaxVal
Addr == 1..NAddr
Cont == {1, 2}

\* --------------------------------------------------------- element types
\* "int"       : trivially copyable, nothing throws
\* "copythrow" : copy assignable, assignment may throw, no nothrow move
\* "string"    : copy assignable (copy may throw), nothrow move assignment
\* "moveonly"  : not copy assignable, move assignment may throw
Types == {"int", "copythrow", "string", "moveonly"}

is_copy_assignable(t) == t \in {"int", "copythrow", "string"}
is_nothrow_move_assignable(t) == t \in {"int", "string"}
CopyMayThrow(t) == t \in {"copythrow", "string"}
\* a move assignment leaves the source in the moved-from state
MoveResetsSource(t) == t \in {"string", "moveonly"}

VARIABLES ty, vec, heap, call, crashed
vars == <<ty, vec, heap, call, crashed>>

\* ------------------------------------------------------------- ArrayPtr
Fresh(n) == [i \in 1..n |-> Default]
Release(h, a) == IF a = NULL THEN h ELSE [h EXCEPT ![a] = <<>>]

\* ---------------------------------------------------------- observations
EmptyVec == [ptr |-> NULL, size |-> 0, capacity |-> 0]
Buf(h, v) == IF v.ptr = NULL THEN <<>> ELSE h[v.ptr]
Corrupt(v) == v.size > v.capacity
\* the live elements [0, size) of a container
Elems(h, v) == IF Corrupt(v) THEN <<>> ELSE SubSeq(Buf(h, v), 1, v.size)
NoRet == [ptr |-> NULL, idx |-> 0]
\* the most recent call: operation, container, arguments, how it ended, what it
\* returned, and the size and capacity it started from
NoOp == [op |-> "none", c |-> 0, arg |-> 0, val |-> 0, outcome |-> "none",
         fail |-> "none", ret |-> NoRet, realloc |-> FALSE,
         pre |-> [size |-> 0, capacity |-> 0]]
Min(a, b) == IF a < b THEN a ELSE b
Max(a, b) == IF a > b THEN a ELSE b

\* ------------------------------------------------- element transfer policy
\* DataOverwrite and the in-place shift of UniversalInsert move when the type
\* is not copy assignable or its move cannot throw, and copy otherwise.
UsesMove == ~is_copy_assignable(ty) \/ is_nothrow_move_assignable(ty)
RelocMayThrow == IF UsesMove THEN ~is_nothrow_move_assignable(ty) ELSE CopyMayThrow(ty)
\* storing the incoming element: Type&& overload (rv) or const Type& overload
StoreMayThrow(rv) == IF rv THEN ~is_nothrow_move_assignable(ty) ELSE CopyMayThrow(ty)
\* either overload is callable: the const Type& one needs a copy assignable type
IncomingMayThrow ==
    \E rv \in BOOLEAN : (rv \/ is_copy_assignable(ty)) /\ StoreMayThrow(rv)
\* std::generate assigns a temporary Type() to each slot
FillMayThrow == ~is_nothrow_move_assignable(ty)

Set1(h, a, i, x) == [h EXCEPT ![a][i + 1] = x]
\* one element assignment  dst[di] = src[si]  (or = std::move(src[si]))
Xfer(h, sa, si, da, di) ==
    LET h1 == Set1(h, da, di, h[sa][si + 1])
    IN IF UsesMove /\ MoveResetsSource(ty) /\ <<sa, si>> # <<da, di>>
       THEN Set1(h1, sa, si, MovedFrom) ELSE h1

\* the same assignments made back to front
RECURSIVE DataOverwriteBackward(_, _, _, _, _, _)
DataOverwriteBackward(h, src, first, dst, out, k) ==
    IF k = 0 THEN h
    ELSE DataOverwriteBackward(Xfer(h, src, first + k - 1, dst, out + k - 1),
                               src, first, dst, out, k - 1)

\* DataOverwrite(in_first, in_last, out_first): the first k assignments of
\* std::move / std::copy from src[first..) to dst[out..), front to back.
RECURSIVE DataOverwrite(_, _, _, _, _, _)
DataOverwrite(h, src, first, dst, out, k) ==
    IF k = 0 THEN h
    ELSE Xfer(DataOverwrite(h, src, first, dst, out, k - 1),
              src, first + k - 1, dst, out + k - 1)

\* the right shift made front to back, as std::move / std::copy would
RECURSIVE ShiftRightForward(_, _, _, _)
ShiftRightForward(h, a, size, k) ==
    IF k = 0 THEN h
    ELSE ShiftRightForward(Xfer(h, a, size - k, a, size - k + 1), a, size, k - 1)

\* std::move_backward / std::copy_backward(begin + idx, end, end + 1): the
\* first k assignments, back to front, of the in-place right shift.
RECURSIVE ShiftRight(_, _, _, _)
ShiftRight(h, a, size, k) ==
    IF k = 0 THEN h
    ELSE Xfer(ShiftRight(h, a, size, k - 1), a, size - k, a, size - k + 1)

\* newly exposed slots left as they are
GenerateNothing(h, a, first, k) == h

\* std::generate(first, last, []{ return Type(); }): the first k assignments
RECURSIVE Generate(_, _, _, _)
Generate(h, a, first, k) ==
    IF k = 0 THEN h ELSE Set1(Generate(h, a, first, k - 1), a, first + k - 1, Default)

\* ----------------------------------------------------- results of a call
Res(v, h, outcome, fail, ret) ==
    [vec |-> v, heap |-> h, outcome |-> outcome, fail |-> fail, ret |-> ret]
Done(v, h) == Res(v, h, "ok", "none", NoRet)
Thrown(v, h, kind) == Res(v, h, "elem_error", kind, NoRet)
OutOfRange(v, h) == Res(v, h, "out_of_range", "none", NoRet)
\* an access through a null or out-of-bounds pointer: the process dies
Crash(v, h) == Res(v, h, "crash", "none", NoRet)

\* growth by one slot instead of doubling
NewCapacityPlusOne(capacity) == capacity + 1
NewCapacity(capacity) == IF capacity = 0 THEN 1 ELSE capacity * 2

\* growth that relocates the elements before it stores the incoming item
UniversalPushBackRelocFirst(h, v, item, a, f) ==
    IF v.size = v.capacity
    THEN LET new_capacity == NewCapacity(v.capacity)
             h1 == [h EXCEPT ![a] = Fresh(new_capacity)]
             k  == IF f = 0 \/ f = 1 THEN v.size ELSE f - 2
             h2 == DataOverwrite(h1, v.ptr, 0, a, 0, k)
             h3 == Set1(h2, a, v.size, item)
         IN IF f = 1 THEN Thrown(v, Release(h2, a), "store")
            ELSE IF f >= 2 THEN Thrown(v, Release(h2, a), "reloc")
            ELSE Done([ptr |-> a, size |-> (v.size + 1) % SIZE_MOD,
                       capacity |-> new_capacity], Release(h3, v.ptr))
    ELSE IF Corrupt(v) THEN Crash(v, h)
    ELSE IF f = 1 THEN Thrown(v, h, "store")
    ELSE Done([v EXCEPT !.size = (v.size + 1) % SIZE_MOD], Set1(h, v.ptr, v.size, item))

\* void UniversalPushBack(U&& item); a is the address the allocator returns,
\* f the assignment that throws (0: none, 1: the incoming item, 1 + j: the
\* j-th relocated element on the growth path).
UniversalPushBack(h, v, item, a, f) ==
    IF v.size = v.capacity
    THEN LET new_capacity == NewCapacity(v.capacity)
             h1 == [h EXCEPT ![a] = Fresh(new_capacity)]
             h2 == Set1(h1, a, v.size, item)
             k  == IF f = 0 THEN v.size ELSE f - 2
             h3 == DataOverwrite(h2, v.ptr, 0, a, 0, k)
         IN IF f = 1 THEN Thrown(v, h, "store")
            ELSE IF f >= 2 THEN Thrown(v, Release(h3, a), "reloc")
            ELSE Done([ptr |-> a, size |-> (v.size + 1) % SIZE_MOD,
                       capacity |-> new_capacity], Release(h3, v.ptr))
    ELSE IF Corrupt(v) THEN Crash(v, h)
    ELSE IF f = 1 THEN Thrown(v, h, "store")
    ELSE Done([v EXCEPT !.size = (v.size + 1) % SIZE_MOD], Set1(h, v.ptr, v.size, item))

\* void IteratorChecking(it, first, last): TRUE when out_of_range is thrown;
\* positions are offsets from begin()
IteratorChecking(it, first, last) == it < first \/ it > last

\* Iterator UniversalInsert(ConstIterator pos, U&& value).  f is the assignment
\* that throws.  Growth path: 1 is the incoming value, 1 + j the j-th relocated
\* element (prefix, then suffix).  In-place path: j <= size - idx is the j-th
\* shifted element, size - idx + 1 the incoming value.
UniversalInsert(h, v, pos, value, a, f) ==
    IF IteratorChecking(pos, 0, v.size) THEN OutOfRange(v, h)
    ELSE LET idx == pos IN
    IF v.size = v.capacity
    THEN LET new_capacity == NewCapacity(v.capacity)
             h1 == [h EXCEPT ![a] = Fresh(new_capacity)]
             h2 == Set1(h1, a, idx, value)
             k  == IF f = 0 THEN v.size ELSE f - 2
             kp == Min(k, idx)
             h3 == DataOverwrite(h2, v.ptr, 0, a, 0, kp)
             h4 == DataOverwrite(h3, v.ptr, idx, a, idx + 1, k - kp)
         IN IF f = 1 THEN Thrown(v, h, "store")
            ELSE IF f >= 2 THEN Thrown(v, Release(h4, a), "reloc")
            ELSE Res([ptr |-> a, size |-> (v.size + 1) % SIZE_MOD,
                      capacity |-> new_capacity], Release(h4, v.ptr),
                     "ok", "none", [ptr |-> a, idx |-> idx])
    ELSE IF Corrupt(v) THEN Crash(v, h)
    ELSE LET n  == v.size - idx
             k  == IF f = 0 \/ f = n + 1 THEN n ELSE f - 1
             h1 == ShiftRight(h, v.ptr, v.size, k)
         IN IF f >= 1 /\ f <= n THEN Thrown(v, h1, "reloc")
            ELSE IF f = n + 1 THEN Thrown(v, h1, "store")
            ELSE Res([v EXCEPT !.size = (v.size + 1) % SIZE_MOD],
                     Set1(h1, v.ptr, idx, value),
                     "ok", "none", [ptr |-> v.ptr, idx |-> idx])

\* Iterator Insert(ConstIterator pos, const Type& value) with value bound to
\* element j of this container.  The growth path reads the reference first
\* (array[idx] = value); the in-place path reads it in ptr_[idx] = value, after
\* the right shift has been made.
UniversalInsertRef(h, v, pos, j, a, f) ==
    IF IteratorChecking(pos, 0, v.size) \/ v.size = v.capacity \/ Corrupt(v)
    THEN UniversalInsert(h, v, pos, Buf(h, v)[j + 1], a, f)
    ELSE LET shifted == ShiftRight(h, v.ptr, v.size, v.size - pos)
         IN UniversalInsert(h, v, pos, shifted[v.ptr][j + 1], a, f)

\* Iterator Erase(ConstIterator pos).  cend() - 1 on a null buffer is undefined
\* behaviour: ub is what the build makes of it ("throw": the check rejects the
\* position, "wrap": nullptr - 1 wraps, the check passes and --size_ wraps,
\* "crash": the shift of the negative range faults).  f is the shifted element
\* whose assignment throws.
Erase(h, v, pos, ub, f) ==
    IF v.ptr = NULL
    THEN IF v.size # 0 \/ ub = "crash" THEN Crash(v, h)
         ELSE IF ub = "throw" THEN OutOfRange(v, h)
         ELSE Res([v EXCEPT !.size = (v.size - 1) % SIZE_MOD], h,
                  "ok", "none", [ptr |-> NULL, idx |-> pos])
    ELSE IF IteratorChecking(pos, 0, v.size - 1) THEN OutOfRange(v, h)
    ELSE LET n  == v.size - pos - 1
             k  == IF f = 0 THEN n ELSE f - 1
             h1 == DataOverwrite(h, v.ptr, pos + 1, v.ptr, pos, k)
         IN IF f >= 1 THEN Thrown(v, h1, "reloc")
            ELSE Res([v EXCEPT !.size = (v.size - 1) % SIZE_MOD], h1,
                     "ok", "none", [ptr |-> v.ptr, idx |-> pos])

\* Type& operator[](size_t index) noexcept: a reference to ptr_[index].  With
\* a null buffer, or an index beyond the buffer, forming that reference is
\* undefined behaviour: ub is what the build makes of it ("ref": a reference
\* to no element is returned, "crash": the access faults).
Subscript(h, v, index, ub) ==
    IF v.ptr # NULL /\ index < Len(h[v.ptr])
    THEN Res(v, h, "ok", "none", [ptr |-> v.ptr, idx |-> index])
    ELSE IF ub = "crash" THEN Crash(v, h)
    ELSE Res(v, h, "ok", "none", [ptr |-> v.ptr, idx |-> index])

\* Type& At(size_t index)
At(h, v, index, ub) ==
    IF index >= v.size THEN OutOfRange(v, h) ELSE Subscript(h, v, index, ub)

\* PopBack that gives the freed slot back
PopBackShrinks(h, v) ==
    IF v.size = 0 THEN Done(v, h)
    ELSE Done([v EXCEPT !.size = (v.size - 1) % SIZE_MOD,
                        !.capacity = (v.size - 1) % SIZE_MOD], h)

\* PopBack that rejects an empty container
PopBackChecked(h, v) ==
    IF v.size = 0 THEN OutOfRange(v, h)
    ELSE Done([v EXCEPT !.size = (v.size - 1) % SIZE_MOD], h)

\* void PopBack() noexcept
PopBack(h, v) ==
    IF v.size = 0 THEN Done(v, h)
    ELSE Done([v EXCEPT !.size = (v.size - 1) % SIZE_MOD], h)

\* void Clear() noexcept
Clear(h, v) == Done([v EXCEPT !.size = 0], h)

\* void Resize(size_t new_size).  f is the assignment that throws: in place the
\* j-th default-filled slot; with reallocation j <= size is the j-th relocated
\* element and size + j the j-th default-filled slot.
Resize(h, v, new_size, a, f) ==
    IF new_size <= v.capacity
    THEN IF new_size > v.size
         THEN LET n  == new_size - v.size
                  k  == IF f = 0 THEN n ELSE f - 1
                  h1 == Generate(h, v.ptr, v.size, k)
              IN IF f >= 1 THEN Thrown(v, h1, "fill")
                 ELSE Done([v EXCEPT !.size = new_size], h1)
         ELSE Done([v EXCEPT !.size = new_size], h)
    ELSE IF Corrupt(v) THEN Crash(v, h)
    ELSE LET h1 == [h EXCEPT ![a] = Fresh(new_size)]
             k  == IF f = 0 THEN v.size ELSE Min(f - 1, v.size)
             h2 == DataOverwrite(h1, v.ptr, 0, a, 0, k)
             g  == IF f = 0 THEN new_size - v.size
                   ELSE IF f <= v.size THEN 0 ELSE f - v.size - 1
             h3 == Generate(h2, a, v.size, g)
         IN IF f >= 1 /\ f <= v.size THEN Thrown(v, Release(h3, a), "reloc")
            ELSE IF f > v.size THEN Thrown(v, Release(h3, a), "fill")
            ELSE Done([ptr |-> a, size |-> new_size, capacity |-> new_size],
                      Release(h3, v.ptr))

\* Reserve that swaps in the new buffer without relocating the elements
ReserveNoRelocate(h, v, new_capacity, a, f) ==
    IF v.capacity >= new_capacity THEN Done(v, h)
    ELSE IF Corrupt(v) THEN Crash(v, h)
    ELSE LET h1 == [h EXCEPT ![a] = Fresh(new_capacity)]
         IN IF f >= 1 THEN Thrown(v, h, "reloc")
            ELSE Done([v EXCEPT !.ptr = a, !.capacity = new_capacity],
                      Release(h1, v.ptr))

\* void Reserve(size_t new_capacity).  f is the relocated element whose
\* assignment throws.
Reserve(h, v, new_capacity, a, f) ==
    IF v.capacity >= new_capacity THEN Done(v, h)
    ELSE IF Corrupt(v) THEN Crash(v, h)
    ELSE LET h1 == [h EXCEPT ![a] = Fresh(new_capacity)]
             k  == IF f = 0 THEN v.size ELSE f - 1
             h2 == DataOverwrite(h1, v.ptr, 0, a, 0, k)
         IN IF f >= 1 THEN Thrown(v, Release(h2, a), "reloc")
            ELSE Done([v EXCEPT !.ptr = a, !.capacity = new_capacity],
                      Release(h2, v.ptr))

\* ---------------------------------------------------------- constructors
\* explicit ArrayPtr(size_t size): no allocation for size 0
ArrayPtrNew(h, a, n) == IF n = 0 THEN h ELSE [h EXCEPT ![a] = Fresh(n)]
PtrOf(a, n) == IF n = 0 THEN NULL ELSE a

\* SimpleVector(size_t size, const Type& value)
SimpleVectorSized(h, size, value, a) ==
    Done([ptr |-> PtrOf(a, size), size |-> size, capacity |-> size],
         IF size = 0 THEN h ELSE [h EXCEPT ![a] = [i \in 1..size |-> value]])

\* SimpleVector(std::initializer_list<Type> init)
SimpleVectorList(h, init, a) ==
    Done([ptr |-> PtrOf(a, Len(init)), size |-> Len(init), capacity |-> Len(init)],
         IF Len(init) = 0 THEN h ELSE [h EXCEPT ![a] = init])

\* SimpleVector(ReserveProxyObj obj)
SimpleVectorReserve(h, capacity, a) ==
    Done([ptr |-> PtrOf(a, capacity), size |-> 0, capacity |-> capacity],
         ArrayPtrNew(h, a, capacity))

\* ------------------------------------------------- two-container operations
ResAll(vs, h, outcome, fail) ==
    [vec |-> vs, heap |-> h, outcome |-> outcome, fail |-> fail, ret |-> NoRet]

\* std::copy(other.begin(), other.end(), ptr_.Get()): the first k assignments
RECURSIVE StdCopy(_, _, _, _)
StdCopy(h, src, dst, k) ==
    IF k = 0 THEN h ELSE Set1(StdCopy(h, src, dst, k - 1), dst, k - 1, h[src][k])

\* a swap that exchanges the buffers but neither size nor capacity
SwapBuffersOnly(vs, h, c, d) ==
    ResAll([vs EXCEPT ![c].ptr = vs[d].ptr, ![d].ptr = vs[c].ptr], h, "ok", "none")

\* void swap(SimpleVector& other) noexcept
Swap(vs, h, c, d) == ResAll([vs EXCEPT ![c] = vs[d], ![d] = vs[c]], h, "ok", "none")

\* a move assignment that takes the source's members without resetting them
MoveAssignKeepsSource(vs, h, c, d) ==
    IF c = d THEN ResAll(vs, h, "ok", "none")
    ELSE ResAll([vs EXCEPT ![c] = vs[d]], Release(h, vs[c].ptr), "ok", "none")

\* SimpleVector& operator=(SimpleVector&& rhs) noexcept.  ptr_ =
\* std::move(rhs.ptr_) releases the buffer held so far and leaves rhs.ptr_
\* null; size_ and capacity_ are exchanged with 0.
MoveAssign(vs, h, c, d) ==
    IF c = d THEN ResAll(vs, h, "ok", "none")
    ELSE ResAll([vs EXCEPT ![c] = vs[d], ![d] = EmptyVec],
                Release(h, vs[c].ptr), "ok", "none")

\* bool operator==(const SimpleVector& rhs): equal sizes and std::equal over
\* [cbegin, cend)
Equals(h, lhs, rhs) ==
    /\ lhs.size = rhs.size
    /\ \A i \in 1..lhs.size : Buf(h, lhs)[i] = Buf(h, rhs)[i]

\* a copy that takes over the source's members as they are
SimpleVectorCopyShallow(h, other, a, f) == Done(other, h)

\* SimpleVector(const SimpleVector& other): a buffer of other.size_ slots, then
\* std::copy into it.  f is the copied element whose assignment throws; a
\* request for a wrapped size cannot be allocated.  A constructor that throws
\* leaves no object: the name then stands for a default-constructed container.
SimpleVectorCopy(h, other, a, f) ==
    IF Corrupt(other) THEN Res(EmptyVec, h, "alloc_error", "none", NoRet)
    ELSE LET n  == other.size
             h1 == ArrayPtrNew(h, a, n)
             k  == IF f = 0 THEN n ELSE f - 1
             h2 == StdCopy(h1, other.ptr, a, k)
         IN IF f >= 1 THEN Res(EmptyVec, Release(h2, a), "elem_error", "copy", NoRet)
            ELSE Done([ptr |-> PtrOf(a, n), size |-> n, capacity |-> n], h2)

\* SimpleVector& operator=(const SimpleVector& rhs): SimpleVector tmp(rhs), then
\* swap(tmp); tmp's destructor releases the former buffer.  a and f are those
\* of the copy construction of tmp.
CopyAssign(vs, h, c, d, a, f) ==
    IF c = d THEN ResAll(vs, h, "ok", "none")
    ELSE LET tmp == SimpleVectorCopy(h, vs[d], a, f)
         IN IF tmp.outcome # "ok" THEN ResAll(vs, tmp.heap, tmp.outcome, tmp.fail)
            ELSE ResAll([vs EXCEPT ![c] = tmp.vec],
                        Release(tmp.heap, vs[c].ptr), "ok", "none")

\* SimpleVector(SimpleVector&& other): every member is exchanged with its
\* empty value
SimpleVectorMove(vs, h, c, d) ==
    ResAll([vs EXCEPT ![c] = vs[d], ![d] = EmptyVec], h, "ok", "none")

\* ------------------------------------------------------------------ actions
Record(op, c, arg, val, r, after) ==
    [op |-> op, c |-> c, arg |-> arg, val |-> val, outcome |-> r.outcome,
     fail |-> r.fail, ret |-> r.ret, realloc |-> after.ptr # vec[c].ptr,
     pre |-> [size |-> vec[c].size, capacity |-> vec[c].capacity]]

Apply(op, c, arg, val, r) ==
    /\ vec' = [vec EXCEPT ![c] = r.vec]
    /\ heap' = r.heap
    /\ crashed' = (r.outcome = "crash")
    /\ call' = Record(op, c, arg, val, r, r.vec)
    /\ UNCHANGED ty

ApplyAll(op, c, arg, r) ==
    /\ vec' = r.vec
    /\ heap' = r.heap
    /\ crashed' = (r.outcome = "crash")
    /\ call' = Record(op, c, arg, 0, r, r.vec[c])
    /\ UNCHANGED ty

\* the address a fresh buffer gets: the allocator hands out the lowest free
\* one (none is needed when the call does not allocate)
Alloc(h, needed) ==
    IF needed
    THEN {a \in Addr : h[a] = <<>> /\ \A b \in Addr : h[b] = <<>> => a <= b}
    ELSE {NULL}

\* positions the caller can pass: offsets from begin() around the buffer; a
\* null buffer only has begin() == end() == nullptr
Positions(v) == IF v.ptr = NULL THEN {0} ELSE -1..(v.capacity + 1)

DoPushBack(c, mc, items) ==
    \E item \in items, f \in 0..(mc + 1) :
      LET v == vec[c]
          grow == v.size = v.capacity
      IN /\ ~crashed
         /\ grow => NewCapacity(v.capacity) <= mc
         /\ f <= (IF grow THEN v.size + 1 ELSE 1)
         /\ f = 1 => IncomingMayThrow
         /\ f >= 2 => RelocMayThrow
         /\ \E a \in Alloc(heap, grow) :
              Apply("PushBack", c, 0, item, UniversalPushBack(heap, v, item, a, f))

DoInsert(c, mc) ==
    \E item \in Val, f \in 0..(mc + 1) :
      LET v == vec[c]
          grow == v.size = v.capacity
      IN /\ ~crashed
         /\ grow => NewCapacity(v.capacity) <= mc
         /\ \E pos \in Positions(v) :
              LET inside == ~IteratorChecking(pos, 0, v.size)
                  n == v.size - pos
              IN /\ f <= (IF ~inside \/ Corrupt(v) THEN 0 ELSE IF grow THEN v.size + 1 ELSE n + 1)
                 /\ (f >= 1 /\ (IF grow THEN f = 1 ELSE f = n + 1)) => IncomingMayThrow
                 /\ (f >= 1 /\ (IF grow THEN f >= 2 ELSE f <= n)) => RelocMayThrow
                 /\ \E a \in Alloc(heap, grow /\ inside) :
                      Apply("Insert", c, pos, item,
                            UniversalInsert(heap, v, pos, item, a, f))

DoErase(c) ==
    \E ub \in {"throw", "wrap", "crash"}, f \in 0..MaxCap :
      LET v == vec[c] IN
      /\ ~crashed
      /\ \E pos \in Positions(v) :
           LET inside == v.ptr # NULL /\ ~IteratorChecking(pos, 0, v.size - 1) IN
           /\ f <= (IF inside THEN v.size - pos - 1 ELSE 0)
           /\ f >= 1 => RelocMayThrow
           /\ (v.ptr # NULL \/ v.size # 0) => ub = "throw"
           /\ Apply("Erase", c, pos, 0, Erase(heap, v, pos, ub, f))

DoPopBack(c) ==
    /\ ~crashed
    /\ Apply("PopBack", c, 0, 0, PopBack(heap, vec[c]))

\* v.PushBack(item); v.PopBack();  a PushBack that throws or faults ends the
\* sequence
DoPushBackPopBack(c, mc) ==
    \E item \in Val, f \in 0..(mc + 1) :
      LET v == vec[c]
          grow == v.size = v.capacity
      IN /\ ~crashed
         /\ grow => NewCapacity(v.capacity) <= mc
         /\ f <= (IF grow THEN v.size + 1 ELSE 1)
         /\ f = 1 => IncomingMayThrow
         /\ f >= 2 => RelocMayThrow
         /\ \E a \in Alloc(heap, grow) :
              LET pushed == UniversalPushBack(heap, v, item, a, f)
              IN Apply("PushBack; PopBack", c, 0, item,
                       IF pushed.outcome = "ok"
                       THEN PopBack(pushed.heap, pushed.vec) ELSE pushed)

\* v.Insert(v.begin() + pos, v[j]) for a live element j
DoInsertRef(c, mc) ==
    \E f \in 0..(mc + 1) :
      LET v == vec[c]
          grow == v.size = v.capacity
      IN /\ ~crashed
         /\ is_copy_assignable(ty)
         /\ ~Corrupt(v)
         /\ grow => NewCapacity(v.capacity) <= mc
         /\ \E pos \in Positions(v), j \in 0..(v.size - 1) :
              LET inside == ~IteratorChecking(pos, 0, v.size)
                  n == v.size - pos
              IN /\ f <= (IF ~inside THEN 0 ELSE IF grow THEN v.size + 1 ELSE n + 1)
                 /\ (f >= 1 /\ (IF grow THEN f = 1 ELSE f = n + 1)) => CopyMayThrow(ty)
                 /\ (f >= 1 /\ (IF grow THEN f >= 2 ELSE f <= n)) => RelocMayThrow
                 /\ \E a \in Alloc(heap, grow /\ inside) :
                      Apply("Insert(ref)", c, pos, j,
                            UniversalInsertRef(heap, v, pos, j, a, f))

\* indices the caller can pass: around the buffer, and the largest size_t
Indices == 0..(MaxCap + 1) \cup {SIZE_MOD - 1}

DoAt(c) ==
    \E index \in Indices, ub \in {"ref", "crash"} :
      /\ ~crashed
      /\ Apply("At", c, index, 0, At(heap, vec[c], index, ub))

DoSubscript(c) ==
    \E index \in Indices, ub \in {"ref", "crash"} :
      /\ ~crashed
      /\ Apply("operator[]", c, index, 0, Subscript(heap, vec[c], index, ub))

DoClear(c) ==
    /\ ~crashed
    /\ Apply("Clear", c, 0, 0, Clear(heap, vec[c]))

DoResize(c, mc) ==
    \E new_size \in 0..mc, f \in 0..mc :
      LET v == vec[c]
          realloc == new_size > v.capacity
      IN /\ ~crashed
         /\ f <= (IF Corrupt(v) THEN 0
                  ELSE IF realloc THEN new_size
                  ELSE IF new_size > v.size THEN new_size - v.size ELSE 0)
         /\ (f >= 1 /\ realloc /\ f <= v.size) => RelocMayThrow
         /\ (f >= 1 /\ ~(realloc /\ f <= v.size)) => FillMayThrow
         /\ \E a \in Alloc(heap, realloc /\ ~Corrupt(v)) :
              Apply("Resize", c, new_size, 0, Resize(heap, v, new_size, a, f))

DoReserve(c, mc) ==
    \E new_capacity \in 0..mc, f \in 0..mc :
      LET v == vec[c]
          realloc == new_capacity > v.capacity
      IN /\ ~crashed
         /\ f <= (IF realloc /\ ~Corrupt(v) THEN v.size ELSE 0)
         /\ f >= 1 => RelocMayThrow
         /\ \E a \in Alloc(heap, realloc /\ ~Corrupt(v)) :
              Apply("Reserve", c, new_capacity, 0,
                    Reserve(heap, v, new_capacity, a, f))

\* the container's scope ends (~SimpleVector releases the buffer) and a new
\* container is constructed in its place
DoConstructSized(c, mc) ==
    \E size \in 0..mc, value \in Val \cup {Default} :
      /\ ~crashed
      /\ is_copy_assignable(ty)
      /\ \E a \in Alloc(Release(heap, vec[c].ptr), size > 0) :
           Apply("SimpleVector(size, value)", c, size, value,
                 SimpleVectorSized(Release(heap, vec[c].ptr), size, value, a))

SeqsUpTo(n) == UNION {[1..m -> Val] : m \in 0..n}

DoConstructList(c, mc) ==
    \E init \in SeqsUpTo(mc) :
      /\ ~crashed
      /\ \E a \in Alloc(Release(heap, vec[c].ptr), Len(init) > 0) :
           Apply("SimpleVector(init)", c, Len(init), 0,
                 SimpleVectorList(Release(heap, vec[c].ptr), init, a))

DoConstructReserve(c, mc) ==
    \E capacity \in 0..mc :
      /\ ~crashed
      /\ \E a \in Alloc(Release(heap, vec[c].ptr), capacity > 0) :
           Apply("SimpleVector(Reserve)", c, capacity, 0,
                 SimpleVectorReserve(Release(heap, vec[c].ptr), capacity, a))

DoSwap(c, d) ==
    /\ ~crashed
    /\ ApplyAll("swap", c, d, Swap(vec, heap, c, d))

DoCopyAssign(c, d, mc) ==
    \E f \in 0..mc :
      /\ ~crashed
      /\ is_copy_assignable(ty)
      /\ f <= (IF c = d \/ Corrupt(vec[d]) THEN 0 ELSE vec[d].size)
      /\ f >= 1 => CopyMayThrow(ty)
      /\ \E a \in Alloc(heap, c # d /\ ~Corrupt(vec[d]) /\ vec[d].size > 0) :
           ApplyAll("operator=(const&)", c, d, CopyAssign(vec, heap, c, d, a, f))

DoMoveAssign(c, d) ==
    /\ ~crashed
    /\ ApplyAll("operator=(&&)", c, d, MoveAssign(vec, heap, c, d))

\* the container's scope ends and a new one is copy-constructed from another
DoCopyConstruct(c, d, mc) ==
    \E f \in 0..mc :
      LET h == Release(heap, vec[c].ptr) IN
      /\ ~crashed
      /\ c # d
      /\ is_copy_assignable(ty)
      /\ f <= (IF Corrupt(vec[d]) THEN 0 ELSE vec[d].size)
      /\ f >= 1 => CopyMayThrow(ty)
      /\ \E a \in Alloc(h, ~Corrupt(vec[d]) /\ vec[d].size > 0) :
           Apply("SimpleVector(const&)", c, d, 0, SimpleVectorCopy(h, vec[d], a, f))

\* the container's scope ends and a new one is move-constructed from another
DoMoveConstruct(c, d) ==
    /\ ~crashed
    /\ c # d
    /\ ApplyAll("SimpleVector(&&)", c, d,
                SimpleVectorMove(vec, Release(heap, vec[c].ptr), c, d))

\* ------------------------------------------------------- specifications
\* SimpleVector() noexcept = default, for every element type
Init ==
    /\ ty \in Types
    /\ vec = [c \in Cont |-> EmptyVec]
    /\ heap = [a \in Addr |-> <<>>]
    /\ call = NoOp
    /\ crashed = FALSE

\* one container, every single-container operation
Next ==
    \/ DoPushBack(1, MaxCap, Val)
    \/ DoInsert(1, MaxCap)
    \/ DoErase(1)
    \/ DoPopBack(1)
    \/ DoClear(1)
    \/ DoResize(1, MaxCap)
    \/ DoReserve(1, MaxCap)
    \/ DoConstructSized(1, MaxCap)
    \/ DoConstructList(1, MaxCap)
    \/ DoConstructReserve(1, MaxCap)

Spec == Init /\ [][Next]_vars

\* two containers, with assignment and swap between them
NextTwo ==
    \E c \in Cont :
      \/ DoPushBack(c, MaxCapTwo, Val)
      \/ DoInsert(c, MaxCapTwo)
      \/ DoErase(c)
      \/ DoPopBack(c)
      \/ DoClear(c)
      \/ DoResize(c, MaxCapTwo)
      \/ DoReserve(c, MaxCapTwo)
      \/ DoConstructSized(c, MaxCapTwo)
      \/ DoConstructList(c, MaxCapTwo)
      \/ DoConstructReserve(c, MaxCapTwo)
      \/ \E d \in Cont : DoSwap(c, d)
      \/ \E d \in Cont : DoCopyAssign(c, d, MaxCapTwo)
      \/ \E d \in Cont : DoMoveAssign(c, d)

SpecTwo == Init /\ [][NextTwo]_vars

\* two containers whose buffers are copied, handed over and exchanged
NextOwn ==
    \E c \in Cont :
      \/ DoPushBack(c, MaxCapOwn, Val)
      \/ DoErase(c)
      \/ DoPopBack(c)
      \/ DoClear(c)
      \/ DoConstructList(c, MaxCapOwn)
      \/ \E d \in Cont : DoSwap(c, d)
      \/ \E d \in Cont : DoCopyAssign(c, d, MaxCapOwn)
      \/ \E d \in Cont : DoMoveAssign(c, d)
      \/ \E d \in Cont : DoCopyConstruct(c, d, MaxCapOwn)
      \/ \E d \in Cont : DoMoveConstruct(c, d)

SpecOwn == Init /\ [][NextOwn]_vars

\* one container whose size moves below its capacity, and element access
NextAt ==
    \/ DoPushBack(1, MaxCap, Val)
    \/ DoErase(1)
    \/ DoPopBack(1)
    \/ DoClear(1)
    \/ DoResize(1, MaxCap)
    \/ DoAt(1)
    \/ DoSubscript(1)

SpecAt == Init /\ [][NextAt]_vars

\* one container on which appends are taken back
NextPushPop ==
    \/ DoPushBack(1, MaxCap, Val)
    \/ DoPopBack(1)
    \/ DoPushBackPopBack(1, MaxCap)
    \/ DoErase(1)
    \/ DoClear(1)
    \/ DoReserve(1, MaxCap)
    \/ DoConstructList(1, MaxCap)

SpecPushPop == Init /\ [][NextPushPop]_vars

\* one container into which its own elements are inserted
NextRef ==
    \/ DoPushBack(1, MaxCap, 1..MaxValPush)
    \/ DoPopBack(1)
    \/ DoReserve(1, MaxCap)
    \/ DoInsertRef(1, MaxCap)

SpecRef == Init /\ [][NextRef]_vars

\* only PushBack, on a default-constructed container
NextPush == DoPushBack(1, MaxCapPush, 1..MaxValPush)

SpecPush == Init /\ [][NextPush]_vars

\* ------------------------------------------------------------------ claims
\* the container the most recent call acted on, before and after the call
Before == vec[call'.c]
After == vec'[call'.c]
ElemsBefore == Elems(heap, Before)
ElemsAfter == Elems(heap', After)
SameContainer ==
    /\ After.size = Before.size
    /\ After.capacity = Before.capacity
    /\ ElemsAfter = ElemsBefore

\* C1: in every reachable state every container satisfies
\* 0 <= size <= capacity.
SizeWithinCapacity ==
    \A c \in Cont : vec[c].size >= 0 /\ vec[c].size <= vec[c].capacity

\* C2: for a type that is copy assignable or nothrow move assignable, a call
\* that fails while relocating elements (PushBack or Insert with growth, the
\* in-place shift of Insert or Erase, Resize, Reserve) leaves size, capacity
\* and the live elements [0, size) as they were.
RelocationFailureKeepsState ==
    [][(/\ call'.outcome = "elem_error"
        /\ call'.fail = "reloc"
        /\ is_copy_assignable(ty) \/ is_nothrow_move_assignable(ty))
       => SameContainer]_vars

\* C3: with only PushBack applied to a default-constructed container, after k
\* appends the capacity is 0 when k = 0 and otherwise the smallest power of
\* two >= k (so capacity >= k), and every change of capacity sets it to
\* max(1, 2 * old capacity).
RECURSIVE SmallestPow2AtLeast(_, _)
SmallestPow2AtLeast(k, p) == IF p >= k THEN p ELSE SmallestPow2AtLeast(k, 2 * p)
DoublingFromEmpty ==
    /\ [](LET k == vec[1].size IN
          /\ vec[1].capacity = (IF k = 0 THEN 0 ELSE SmallestPow2AtLeast(k, 1))
          /\ vec[1].capacity >= k)
    /\ [][vec'[1].capacity # vec[1].capacity
          => vec'[1].capacity = Max(1, 2 * vec[1].capacity)]_vars
\* five appends have grown the capacity 1, 2, 4, 8
DoublingFromEmptyWitness ==
    /\ call.op = "PushBack" /\ call.outcome = "ok" /\ call.realloc
    /\ vec[1].size = 5 /\ vec[1].capacity = 8

\* C4: Insert(begin() + i, v) with 0 <= i <= size on a container holding s
\* leaves s[0..i) ++ <<v>> ++ s[i..size), size + 1, and returns begin() + i of
\* the current buffer; with size = capacity a new buffer of
\* max(1, 2 * capacity) slots is used, with size < capacity the buffer and
\* the capacity stay.
InsertedSeq(s, i, v) == SubSeq(s, 1, i) \o <<v>> \o SubSeq(s, i + 1, Len(s))
InsertPlacesValue ==
    [][(call'.op = "Insert" /\ call'.outcome = "ok")
       => LET i == call'.arg IN
          /\ i >= 0 /\ i <= Before.size
          /\ ElemsAfter = InsertedSeq(ElemsBefore, i, call'.val)
          /\ After.size = Before.size + 1
          /\ call'.ret = [ptr |-> After.ptr, idx |-> i]
          /\ IF Before.size = Before.capacity
             THEN /\ After.capacity = Max(1, 2 * Before.capacity)
                  /\ After.ptr # Before.ptr
                  /\ Len(Buf(heap', After)) = After.capacity
             ELSE /\ After.capacity = Before.capacity
                  /\ After.ptr = Before.ptr]_vars
\* an in-place insert in front of two live elements
InsertPlacesValueWitness ==
    /\ call.op = "Insert" /\ call.outcome = "ok" /\ ~call.realloc
    /\ call.arg = 1 /\ call.pre.size = 3 /\ call.pre.capacity = 4
    /\ vec[1].size = 4

\* C5: Erase(begin() + i) with 0 <= i < size on a container holding s leaves s
\* without element i, the others in order, size - 1, the same capacity, and
\* returns begin() + i: the element that followed the erased one, or end()
\* when the last element was erased.
ErasedSeq(s, i) == SubSeq(s, 1, i) \o SubSeq(s, i + 2, Len(s))
EraseRemovesElement ==
    [][(/\ call'.op = "Erase" /\ call'.outcome = "ok"
        /\ call'.arg >= 0 /\ call'.arg < Before.size)
       => LET i == call'.arg IN
          /\ ElemsAfter = ErasedSeq(ElemsBefore, i)
          /\ After.size = Before.size - 1
          /\ After.capacity = Before.capacity
          /\ After.ptr = Before.ptr
          /\ call'.ret = [ptr |-> After.ptr, idx |-> i]
          /\ IF i = Before.size - 1 THEN call'.ret.idx = After.size
             ELSE ElemsAfter[i + 1] = ElemsBefore[i + 2]]_vars
\* the first of three elements was erased
EraseRemovesElementWitness ==
    /\ call.op = "Erase" /\ call.outcome = "ok"
    /\ call.arg = 0 /\ call.pre.size = 3 /\ vec[1].size = 2

\* C6: Insert with a position outside [begin, end] and Erase with a position
\* outside [begin, end) end in out_of_range and change nothing; Erase does so
\* for every position when size is 0, also on a default-constructed container
\* whose begin() and end() are null.
OutsidePositionRejected ==
    [][(\/ call'.op = "Insert" /\ (call'.arg < 0 \/ call'.arg > Before.size)
        \/ call'.op = "Erase" /\ (call'.arg < 0 \/ call'.arg >= Before.size))
       => /\ call'.outcome = "out_of_range"
          /\ vec' = vec
          /\ heap' = heap]_vars

\* C7: a PushBack that fails while storing the incoming element, with or
\* without reallocation, leaves size, capacity and the elements [0, size) as
\* they were.
PushBackStoreFailureKeepsState ==
    [][(call'.op = "PushBack" /\ call'.fail = "store")
       => /\ call'.outcome = "elem_error"
          /\ SameContainer
          /\ After.ptr = Before.ptr]_vars
\* the failing PushBack had to reallocate a buffer holding live elements
PushBackStoreFailureWitness ==
    /\ call.op = "PushBack" /\ call.fail = "store"
    /\ call.pre.size = call.pre.capacity /\ call.pre.size = 2
    /\ ty = "moveonly"

\* C8 as stated: PopBack, Clear, swap and a PushBack with size < capacity
\* never end in an error.
NoGrowthCallsNeverFail ==
    [][(\/ call'.op \in {"PopBack", "Clear", "swap"}
        \/ call'.op = "PushBack" /\ Before.size < Before.capacity)
       => call'.outcome = "ok"]_vars
\* C8 as amended: PopBack (also on an empty container), Clear and swap never
\* end in an error; a PushBack with size < capacity never fails for a type
\* whose assignment cannot throw, and otherwise can fail only while storing
\* the incoming element, leaving the container as it was.
NoGrowthCallsFailOnlyInStore ==
    [][/\ call'.op \in {"PopBack", "Clear", "swap"} => call'.outcome = "ok"
       /\ (call'.op = "PushBack" /\ Before.size < Before.capacity)
          => \/ call'.outcome = "ok"
             \/ /\ call'.outcome = "elem_error" /\ call'.fail = "store"
                /\ ~(is_nothrow_move_assignable(ty) /\ ~CopyMayThrow(ty))
                /\ vec' = vec /\ heap' = heap]_vars
\* a PushBack into spare capacity failed in the store of the incoming element
NoGrowthPushBackFailedWitness ==
    /\ call.op = "PushBack" /\ call.outcome = "elem_error"
    /\ call.pre.size < call.pre.capacity

\* C9: a Resize(n) from size s and capacity c leaves size n, the elements
\* [0, min(s, n)) as they were, every element of [s, n) equal to the default
\* value, and capacity c when n <= c, n when n > c.
ResizePostcondition ==
    [][(call'.op = "Resize" /\ call'.outcome = "ok")
       => LET n == call'.arg
              keep == Min(Before.size, n)
          IN /\ After.size = n
             /\ SubSeq(ElemsAfter, 1, keep) = SubSeq(ElemsBefore, 1, keep)
             /\ \A j \in (Before.size + 1)..n : ElemsAfter[j] = Default
             /\ After.capacity = (IF n <= Before.capacity THEN Before.capacity ELSE n)]_vars
\* an in-place Resize exposed two slots beyond the old size
ResizePostconditionWitness ==
    /\ call.op = "Resize" /\ call.outcome = "ok" /\ ~call.realloc
    /\ call.pre.size = 1 /\ call.arg = 3 /\ vec[1].capacity = 4
    /\ Elems(heap, vec[1]) = <<1, Default, Default>>

\* C10: a Reserve(c) leaves size and the elements [0, size) as they were and
\* capacity = max(old capacity, c); with c <= old capacity it changes nothing
\* and keeps the buffer; a PushBack with size < capacity does not reallocate.
ReserveKeepsContents ==
    [][/\ (call'.op = "Reserve" /\ call'.outcome = "ok")
          => /\ After.size = Before.size
             /\ ElemsAfter = ElemsBefore
             /\ After.capacity = Max(Before.capacity, call'.arg)
             /\ call'.arg <= Before.capacity => (vec' = vec /\ heap' = heap)
       /\ (call'.op = "Reserve" /\ call'.arg <= Before.capacity)
          => call'.outcome = "ok"
       /\ (call'.op = "PushBack" /\ call'.outcome = "ok"
           /\ Before.size < Before.capacity)
          => (After.ptr = Before.ptr /\ After.capacity = Before.capacity)]_vars
\* a Reserve moved three live elements into a larger buffer
ReserveKeepsContentsWitness ==
    /\ call.op = "Reserve" /\ call.outcome = "ok" /\ call.realloc
    /\ call.pre.size = 3 /\ call.pre.capacity = 3 /\ vec[1].capacity = 4

\* C11: a container produced by copy construction or copy assignment from
\* another container compares equal to it, has size = capacity = the source's
\* size and shares no storage with it (the source is left as it was); every
\* operation on one container other than swap and move leaves the other
\* container's size, capacity, buffer and element values as they were, and a
\* copy assignment of a container to itself changes nothing.
CopyOps == {"SimpleVector(const&)", "operator=(const&)"}
OwnOps == {"PushBack", "Insert", "Erase", "PopBack", "Clear", "Resize", "Reserve",
           "SimpleVector(size, value)", "SimpleVector(init)",
           "SimpleVector(Reserve)"}
CopyIsEqualAndIndependent ==
    [][/\ (call'.op \in CopyOps /\ call'.outcome = "ok" /\ call'.c # call'.arg)
          => LET src == vec'[call'.arg] IN
             /\ Equals(heap', After, src)
             /\ After.size = src.size
             /\ After.capacity = src.size
             /\ Len(Buf(heap', After)) = After.capacity
             /\ After.ptr = NULL \/ After.ptr # src.ptr
             /\ After.size > 0 => After.ptr # NULL
       /\ (call'.op \in CopyOps /\ call'.c = call'.arg)
          => (call'.outcome = "ok" /\ vec' = vec /\ heap' = heap)
       /\ call'.op \in CopyOps \cup OwnOps
          => \A d \in Cont \ {call'.c} :
               /\ vec'[d] = vec[d]
               /\ Buf(heap', vec'[d]) = Buf(heap, vec[d])]_vars
\* a two-element container was copy-assigned to one that held a buffer of its
\* own
CopyIsEqualAndIndependentWitness ==
    /\ call.op = "operator=(const&)" /\ call.outcome = "ok" /\ call.c # call.arg
    /\ call.pre.capacity = 1 /\ call.realloc
    /\ vec[call.c].size = 2 /\ vec[call.arg].capacity = 2
    /\ Buf(heap, vec[call.c]) = Buf(heap, vec[call.arg])

\* C12: a move construction or move assignment from another container cannot
\* fail and gives the destination the source's former buffer (the same
\* address), size, capacity and element values, leaving the source with null
\* buffer, size 0 and capacity 0; a PushBack on the source right after the
\* move either succeeds with size 1 and capacity 1 or fails in the element's
\* own assignment leaving the source empty; a move assignment of a container
\* to itself changes nothing.
MoveOps == {"SimpleVector(&&)", "operator=(&&)"}
MoveHandsOverBuffer ==
    [][/\ (call'.op \in MoveOps /\ call'.c # call'.arg)
          => /\ call'.outcome = "ok"
             /\ After = vec[call'.arg]
             /\ Buf(heap', After) = Buf(heap, vec[call'.arg])
             /\ vec'[call'.arg] = EmptyVec
       /\ (call'.op \in MoveOps /\ call'.c = call'.arg)
          => (call'.outcome = "ok" /\ vec' = vec /\ heap' = heap)
       /\ (/\ call.op \in MoveOps /\ call.c # call.arg
           /\ call'.op = "PushBack" /\ call'.c = call.arg)
          => \/ /\ call'.outcome = "ok"
                /\ After.size = 1 /\ After.capacity = 1
                /\ ElemsAfter = <<call'.val>>
             \/ /\ call'.outcome = "elem_error" /\ call'.fail = "store"
                /\ IncomingMayThrow
                /\ vec' = vec /\ heap' = heap]_vars
\* a two-element container was move-assigned to one that held a buffer of its
\* own
MoveHandsOverBufferWitness ==
    /\ call.op = "operator=(&&)" /\ call.outcome = "ok" /\ call.c # call.arg
    /\ call.pre.capacity = 1 /\ call.realloc
    /\ vec[call.c].size = 2 /\ vec[call.c].capacity = 2
    /\ Elems(heap, vec[call.c]) = <<1, 1>>
    /\ vec[call.arg] = EmptyVec

\* C13: a swap cannot fail; afterwards each container has the other's former
\* buffer (the same address), size and capacity, no slot of any buffer has
\* changed, and a second swap of the same two containers restores both
\* exactly.
SwapExchangesWhole ==
    [][call'.op = "swap"
       => LET c == call'.c
              d == call'.arg
              again == Swap(vec', heap', c, d)
          IN /\ call'.outcome = "ok"
             /\ vec'[c] = vec[d]
             /\ vec'[d] = vec[c]
             /\ heap' = heap
             /\ Elems(heap', vec'[c]) = Elems(heap, vec[d])
             /\ Elems(heap', vec'[d]) = Elems(heap, vec[c])
             /\ again.vec = vec
             /\ again.heap = heap]_vars
\* a container of two elements was swapped with one holding one element in a
\* buffer of two slots
SwapExchangesWholeWitness ==
    /\ call.op = "swap" /\ call.outcome = "ok" /\ call.c # call.arg
    /\ call.pre.size = 2 /\ call.realloc
    /\ vec[call.c].size = 1 /\ vec[call.c].capacity = 2
    /\ vec[call.arg].size = 2 /\ vec[call.arg].ptr # NULL

\* C14: in every reachable state At(index) with index >= size ends in
\* out_of_range and changes nothing, also when index < capacity; with
\* index < size it never fails and returns a reference to slot index of the
\* buffer, an existing element, the one operator[](index) refers to.
AtChecksAgainstSize ==
    [][call'.op = "At"
       => IF call'.arg >= Before.size
          THEN /\ call'.outcome = "out_of_range"
               /\ vec' = vec /\ heap' = heap
          ELSE /\ call'.outcome = "ok"
               /\ call'.ret = [ptr |-> Before.ptr, idx |-> call'.arg]
               /\ call'.arg < Len(Buf(heap, Before))
               /\ \A ub \in {"ref", "crash"} :
                    Subscript(heap, Before, call'.arg, ub).ret = call'.ret]_vars
\* the same for the containers whose size is within the capacity
AtChecksAgainstSizeUncorrupted ==
    [][(call'.op = "At" /\ ~Corrupt(Before))
       => IF call'.arg >= Before.size
          THEN /\ call'.outcome = "out_of_range"
               /\ vec' = vec /\ heap' = heap
          ELSE /\ call'.outcome = "ok"
               /\ call'.ret = [ptr |-> Before.ptr, idx |-> call'.arg]
               /\ call'.arg < Len(Buf(heap, Before))
               /\ \A ub \in {"ref", "crash"} :
                    Subscript(heap, Before, call'.arg, ub).ret = call'.ret]_vars
\* At was refused for an index below the capacity
AtRefusedBelowCapacity ==
    /\ call.op = "At" /\ call.outcome = "out_of_range"
    /\ call.arg >= vec[1].size /\ call.arg < vec[1].capacity

\* C15 as stated: PushBack(x) followed immediately by PopBack() leaves size
\* and capacity at the values they had before the PushBack; PopBack never
\* changes the capacity or the buffer, and on an empty container it changes
\* nothing.
PushPopAsStated ==
    [][/\ (call'.op = "PushBack; PopBack" /\ call'.outcome = "ok")
          => /\ After.size = Before.size
             /\ After.capacity = Before.capacity
       /\ call'.op = "PopBack"
          => /\ call'.outcome = "ok"
             /\ After.capacity = Before.capacity
             /\ After.ptr = Before.ptr
             /\ heap' = heap
             /\ Before.size = 0 => vec' = vec]_vars
\* C15 as amended: PushBack(x) that returns normally, followed immediately by
\* PopBack(), leaves the size and the elements [0, size) as before the
\* PushBack; the capacity is the one before the PushBack when size < capacity
\* held then, and max(1, 2 * capacity) when size = capacity held (the growth
\* is not taken back); PopBack never changes the capacity or the buffer, and
\* on an empty container it changes nothing.
PushPopKeepsSizeAndGrowth ==
    [][/\ (call'.op = "PushBack; PopBack" /\ call'.outcome = "ok")
          => /\ After.size = Before.size
             /\ ElemsAfter = ElemsBefore
             /\ After.capacity = (IF Before.size = Before.capacity
                                  THEN Max(1, 2 * Before.capacity)
                                  ELSE Before.capacity)
             /\ Before.size < Before.capacity => After.ptr = Before.ptr
       /\ call'.op = "PopBack"
          => /\ call'.outcome = "ok"
             /\ After.size = (IF Before.size = 0 THEN 0 ELSE (Before.size - 1) % SIZE_MOD)
             /\ After.capacity = Before.capacity
             /\ After.ptr = Before.ptr
             /\ heap' = heap
             /\ Before.size = 0 => vec' = vec]_vars
\* an append to a full container of two elements was taken back: the size is
\* 2 again, the capacity has doubled
PushPopGrewWitness ==
    /\ call.op = "PushBack; PopBack" /\ call.outcome = "ok" /\ call.realloc
    /\ call.pre.size = 2 /\ call.pre.capacity = 2
    /\ vec[1].size = 2 /\ vec[1].capacity = 4

\* C16: Insert(begin() + i, value) with value a reference to element j of the
\* same container holding s leaves s[0..i) ++ <<s[j]>> ++ s[i..size), on the
\* growth path and on the in-place path.
InsertOfOwnElement ==
    [][(call'.op = "Insert(ref)" /\ call'.outcome = "ok")
       => LET i == call'.arg
              j == call'.val
          IN /\ After.size = Before.size + 1
             /\ ElemsAfter = InsertedSeq(ElemsBefore, i, ElemsBefore[j + 1])]_vars
\* the same for the calls that reallocate
InsertOfOwnElementGrowing ==
    [][(call'.op = "Insert(ref)" /\ call'.outcome = "ok"
        /\ Before.size = Before.capacity)
       => LET i == call'.arg
              j == call'.val
          IN /\ After.size = Before.size + 1
             /\ ElemsAfter = InsertedSeq(ElemsBefore, i, ElemsBefore[j + 1])]_vars
\* an in-place insert at the front of the last of three elements
InsertOfOwnElementInPlace ==
    /\ call.op = "Insert(ref)" /\ call.outcome = "ok" /\ ~call.realloc
    /\ call.arg = 0 /\ call.val = 2 /\ call.pre.size = 3 /\ call.pre.capacity = 4

====
